---------------------------- MODULE Spec2Model ----------------------------
(***************************************************************************)
(* Model of Algorithms/Strassen's/src/matrix.cpp: a square matrix of ints  *)
(* kept in a flat row-major buffer, with element access, partition,       *)
(* combine, the recursive multiply, strassen, and the operators + - *.    *)
(*                                                                         *)
(* A Matrix object is the record [size, data]: m_size and m_data.  The     *)
(* buffer m_data is 0-indexed in the code and a 1-indexed sequence here,   *)
(* so the element at offset i is data[i + 1].                              *)
(*                                                                         *)
(* A call that may throw is modelled by the record it evaluates to (an     *)
(* "outcome"): err is "none" and m the returned matrix, or err names the   *)
(* exception (std::invalid_argument, std::out_of_range) and m is NoMatrix. *)
(* The other fields of an outcome count what the evaluation did.           *)
(***************************************************************************)
EXTENDS Integers, Sequences, FiniteSets, TLC

\* Largest size handed to the constructor (sizes 0..MaxSize are tried).
MaxSize == 8

\* Number of seeds randomize() is run with, per size.
MaxSeed == 2

\* Largest row/column argument handed to at() and partition().
MaxIdx == 4

\* std::uniform_int_distribution distribution(-9, 9)
RandLimit == 9

VARIABLES
    A,      \* the receiver of the operations (*this)
    B,      \* the argument of the binary operations (other)
    Q,      \* the four quadrants handed to combine, or <<>>
    R,      \* the matrix the last operation returned (combine: its receiver)
    err,    \* the exception the last operation threw, or "none"
    op,     \* the last operation, "idle" when none is pending
    args,   \* the arguments of the last operation
    ret,    \* the size_t the last get_index returned
    stats   \* what the last operation did: see Ok

vars == <<A, B, Q, R, err, op, args, ret, stats>>

----------------------------------------------------------------------------
(* Outcomes *)

NoMatrix == [size |-> -1, data |-> <<>>]

Max(a, b) == IF a >= b THEN a ELSE b

\* A call that returned m and did nothing that is counted.
\*   muls     scalar multiplications done (line 106)
\*   made     <<m_size, m_data.size()>> of every Matrix constructed
\*   depth    levels of recursive calls (calls made by a recursive case,
\*            lines 112-122 and 138-144) below this call
\*   halved   every such call got operands of half its caller's size
\*   mulSizes the receiver sizes multiply was called with
\*   delegated  strassen's base case handed the product to multiply (line 133)
Ok(m) ==
    [err |-> "none", m |-> m, muls |-> 0, made |-> {}, depth |-> 0,
     halved |-> TRUE, mulSizes |-> {}, delegated |-> FALSE]

\* A call that threw e.
Throw(e) == [Ok(NoMatrix) EXCEPT !.err = e]

\* The element of a one-element set.  { e : v \in {x} } evaluates x once and
\* binds v to its value, however often e uses it.
The(S) == CHOOSE x \in S : TRUE

\* y evaluated after x returned: y's result, and what both did.
After(x, y) ==
    [y EXCEPT !.muls = x.muls + y.muls,
              !.made = x.made \cup y.made,
              !.depth = Max(x.depth, y.depth),
              !.halved = x.halved /\ y.halved,
              !.mulSizes = x.mulSizes \cup y.mulSizes,
              !.delegated = x.delegated \/ y.delegated]

\* x; y  -- an exception thrown by x propagates and y is not evaluated.
Then(x, y) ==
    The({ IF v.err # "none" THEN v ELSE The({ After(v, w) : w \in {y} }) : v \in {x} })

\* A named local (Matrix P1 = ...) used again: its value, nothing recounted.
Val(x) == Ok(x.m)

----------------------------------------------------------------------------
(* Construction *)

RECURSIVE FloorLog2(_)
FloorLog2(s) == IF s <= 1 THEN 0 ELSE 1 + FloorLog2(s \div 2)

\* Mutant: the test written as "s is odd (and not 1)", which lets 6 through.
Log2HasFraction_parity(s) == s = 0 \/ (s % 2 # 0 /\ s # 1)

\* Mutant: the test written as (s & (s - 1)) != 0, which lets 0 through.
Log2HasFraction_bits(s) == s # 0 /\ 2 ^ FloorLog2(s) # s

\* std::fmod(std::log2(s), 1) != 0.  log2(0) is -inf and fmod(-inf, 1) is
\* NaN, which differs from 0; for s >= 1 (far below 2^53) log2(s) is whole
\* exactly when s is 2^floor(log2(s)).
Log2HasFraction(s) == IF s = 0 THEN TRUE ELSE 2 ^ FloorLog2(s) # s

\* The value randomize() writes at offset i (from 0) when the engine is
\* seeded with seed: some value of distribution(-9, 9).
Draw(seed, i) ==
    ((seed * seed * 5 + 7 * seed * i + 3 * i * i + 11 * i + seed)
        % (2 * RandLimit + 1)) - RandLimit

randomize(m, seed) == [m EXCEPT !.data = [i \in 1..Len(m.data) |-> Draw(seed, i - 1)]]

\* Matrix::Matrix(size_t s, bool empty)
Matrix(s, empty, seed) ==
    IF Log2HasFraction(s)
    THEN Throw("invalid_argument")
    ELSE LET zero == [size |-> s, data |-> [i \in 1..(s * s) |-> 0]]
             m == IF empty THEN zero ELSE randomize(zero, seed)
         IN  [Ok(m) EXCEPT !.made = {<<m.size, Len(m.data)>>}]

\* Matrix result(m_size): the constructor with its second argument left to
\* the default of the declaration (matrix.hpp), taken to be empty = true.
\* Every caller overwrites all the elements of such a matrix before it
\* returns it.
NewMatrix(s) == Matrix(s, TRUE, 0)

----------------------------------------------------------------------------
(* Element access *)

\* What get_index evaluates to when it throws std::out_of_range.
OutOfRange == -1

\* Mutant: the bound off by one, i < m_data.size() - 1.
get_index_strict(m, r, c) ==
    LET i == r * m.size + c
    IN  IF i < Len(m.data) - 1 THEN i ELSE -1

\* size_t Matrix::get_index(size_t r, size_t c) const
\* (the arguments used here keep r * m_size + c far below 2^64: no wrap)
get_index(m, r, c) ==
    LET i == r * m.size + c
    IN  IF i < Len(m.data) THEN i ELSE OutOfRange

\* int Matrix::at(size_t r, size_t c) const, where get_index returned
at(m, r, c) == m.data[get_index(m, r, c) + 1]

----------------------------------------------------------------------------
(* Partition and combine *)

\* m_size / 2 (size_t division)
Half(n) == n \div 2

\* Matrix Matrix::partition(size_t row_start, size_t col_start) const
\* The element (i, j) of sub_matrix lives at offset n - 1 = i * s + j, and
\* src[n] is the offset at(i + row_start, j + col_start) reads, OutOfRange
\* when it throws; the first at that throws ends the call.
partition(self, row_start, col_start) ==
    LET s == Half(self.size)
    IN  The({ IF sub_matrix.err # "none"
              THEN sub_matrix
              ELSE The({ IF \E n \in 1..(s * s) : src[n] = OutOfRange
                         THEN After(sub_matrix, Throw("out_of_range"))
                         ELSE After(sub_matrix,
                                    Ok([sub_matrix.m EXCEPT !.data =
                                          [n \in 1..(s * s) |-> self.data[src[n] + 1]]]))
                         : src \in {[n \in 1..(s * s) |->
                                       get_index(self, ((n - 1) \div s) + row_start,
                                                       ((n - 1) % s) + col_start)]} })
              : sub_matrix \in {NewMatrix(s)} })

\* Mutant: the column offset of the right-hand quadrants forgotten (j for
\* j - k).
determine_quad_nooffset(k, quads, i, j) ==
    IF i < k /\ j < k THEN <<1, get_index(quads[1], i, j)>>
    ELSE IF i < k /\ j >= k THEN <<2, get_index(quads[2], i, j)>>
    ELSE IF i >= k /\ j < k THEN <<3, get_index(quads[3], i - k, j)>>
    ELSE <<4, get_index(quads[4], i - k, j)>>

\* The offset determine_quad(i, j) reads, as <<quadrant, offset>>; the
\* offset is OutOfRange when that at_ref throws.
determine_quad(k, quads, i, j) ==
    IF i < k /\ j < k THEN <<1, get_index(quads[1], i, j)>>
    ELSE IF i < k /\ j >= k THEN <<2, get_index(quads[2], i, j - k)>>
    ELSE IF i >= k /\ j < k THEN <<3, get_index(quads[3], i - k, j)>>
    ELSE <<4, get_index(quads[4], i - k, j - k)>>

\* Mutant: the assignment of line 95 reversed (the quadrants are non-const
\* references): each quadrant element is overwritten with the receiver's.
combine_reversed(self, quads) ==
    LET k == Half(self.size)
        Src(q, n) == ((((n - 1) \div k) + (IF q > 2 THEN k ELSE 0)) * self.size)
                     + ((n - 1) % k) + (IF q % 2 = 0 THEN k ELSE 0) + 1
    IN  [err |-> "none",
         self |-> self,
         quads |-> [q \in 1..4 |->
                      [quads[q] EXCEPT !.data =
                         [n \in 1..Len(quads[q].data) |->
                            IF n <= k * k /\ Src(q, n) <= Len(self.data)
                            THEN self.data[Src(q, n)] ELSE @[n]]]]]

\* void Matrix::combine(Matrix &R_11, Matrix &R_12, Matrix &R_21, Matrix &R_22)
\* quads is <<R_11, R_12, R_21, R_22>>.  Returns the receiver and the four
\* arguments as the call leaves them.  The loop runs in row-major order and
\* stops at the first at_ref that throws: the elements before it are
\* written, the rest are not.
combine(self, quads) ==
    LET k == Half(self.size)
        n2 == self.size * self.size
        FirstOf(bad) == IF bad = {} THEN n2 + 1
                        ELSE CHOOSE n \in bad : \A b \in bad : n <= b
    IN  The({ The({ [err |-> IF firstBad > n2 THEN "none" ELSE "out_of_range",
                     self |-> [self EXCEPT !.data =
                                 [n \in 1..n2 |->
                                    IF n < firstBad
                                    THEN quads[cell[n][1]].data[cell[n][2] + 1]
                                    ELSE self.data[n]]],
                     quads |-> quads]
                    : firstBad \in {FirstOf({n \in 1..n2 : cell[n][2] = OutOfRange})} })
              : cell \in {[n \in 1..n2 |->
                             determine_quad(k, quads, (n - 1) \div self.size,
                                                      (n - 1) % self.size)]} })

\* result.combine(R_11, R_12, R_21, R_22); return result;
Combined(self, quads) ==
    The({ IF c.err # "none" THEN Throw(c.err) ELSE Ok(c.self) : c \in {combine(self, quads)} })

----------------------------------------------------------------------------
(* Elementwise operators *)

\* Matrix Matrix::operator+(Matrix const &other) const
add(self, other) ==
    IF self.size # other.size
    THEN Throw("invalid_argument")
    ELSE The({ Then(result,
                    Ok([result.m EXCEPT !.data =
                          [i \in 1..Len(self.data) |-> self.data[i] + other.data[i]]]))
               : result \in {NewMatrix(self.size)} })

\* Matrix Matrix::operator-(Matrix const &other) const
subtract(self, other) ==
    IF self.size # other.size
    THEN Throw("invalid_argument")
    ELSE The({ Then(result,
                    Ok([result.m EXCEPT !.data =
                          [i \in 1..Len(self.data) |-> self.data[i] - other.data[i]]]))
               : result \in {NewMatrix(self.size)} })

\* x + y and x - y on operands that are themselves calls: both operands are
\* evaluated (x first; for the uses below the order does not change which
\* exception is thrown), then the operator.
Plus(x, y) == The({ Then(l, Then(r, add(l.m, r.m))) : l \in {x}, r \in {y} })
Minus(x, y) == The({ Then(l, Then(r, subtract(l.m, r.m))) : l \in {x}, r \in {y} })

----------------------------------------------------------------------------
(* Recursive multiply *)

\* The two ways a build may order the operands of the + on lines 112-122
\* (unsequenced in C++17): left operand first, or right operand first.
Orders == {"lr", "rl"}

\* l + r with the operands evaluated in the order ord.
Sum(l, r, ord) ==
    The({ IF ord = "lr"
          THEN Then(x, Then(y, add(x.m, y.m)))
          ELSE Then(y, Then(x, add(x.m, y.m)))
          : x \in {l}, y \in {r} })

\* A call on operands x, y made by a caller of size n in its recursive
\* case: one level deeper than the caller.
Nested(n, x, y, call) ==
    [call EXCEPT !.depth = @ + 1,
                 !.halved = @ /\ 2 * x.size = n /\ 2 * y.size = n]

\* result.at_ref(0, 0) = at(0, 0) * other.at(0, 0)   (line 106)
ScalarProduct(self, other, result) ==
    IF get_index(self, 0, 0) = OutOfRange \/ get_index(other, 0, 0) = OutOfRange
       \/ get_index(result, 0, 0) = OutOfRange
    THEN Throw("out_of_range")
    ELSE [Ok([result EXCEPT !.data[get_index(result, 0, 0) + 1] =
                               at(self, 0, 0) * at(other, 0, 0)])
            EXCEPT !.muls = 1]

RECURSIVE multiply(_, _, _)
\* x.multiply(y) called by a caller of size n in its recursive case.  The
\* object expression x is evaluated before the argument y (C++17), and both
\* before the call.
Recurse(n, x, y, ord) ==
    The({ Then(a, Then(b, Nested(n, a.m, b.m, multiply(a.m, b.m, ord))))
          : a \in {x}, b \in {y} })

\* Matrix Matrix::multiply(Matrix const &other) const
multiply(self, other, ord) ==
    LET k == Half(self.size)
        Product(ra, ca, rb, cb) ==
            Recurse(self.size, partition(self, ra, ca), partition(other, rb, cb), ord)
        Blocks(result) ==
            The({ Then(R_11, Then(R_12, Then(R_21, Then(R_22,
                     Combined(result, <<R_11.m, R_12.m, R_21.m, R_22.m>>)))))
                  : R_11 \in {Sum(Product(0, 0, 0, 0), Product(0, k, k, 0), ord)},
                    R_12 \in {Sum(Product(0, 0, 0, k), Product(0, k, k, k), ord)},
                    R_21 \in {Sum(Product(k, 0, 0, 0), Product(k, k, k, 0), ord)},
                    R_22 \in {Sum(Product(k, 0, 0, k), Product(k, k, k, k), ord)} })
        body ==
            The({ Then(result,
                       IF self.size = 1
                       THEN ScalarProduct(self, other, result.m)
                       ELSE Blocks(result.m))
                  : result \in {NewMatrix(self.size)} })
    IN  [body EXCEPT !.mulSizes = @ \cup {self.size}]

----------------------------------------------------------------------------
(* Strassen multiply *)

\* Lines 138-144: the seven products, as <<P1, ..., P7>>.  Each is a call
\* to multiply on half-size operands.
strassen_P(self, other, ord) ==
    LET k == Half(self.size)
        a(r, c) == partition(self, r, c)
        b(r, c) == partition(other, r, c)
        Call(x, y) == Recurse(self.size, x, y, ord)
    IN  << Call(a(0, 0), Minus(b(0, k), b(k, k))),
           Call(Plus(a(0, 0), a(0, k)), b(k, k)),
           Call(Plus(a(k, 0), a(k, k)), b(0, 0)),
           Call(a(k, k), Minus(b(k, 0), b(0, 0))),
           Call(Plus(a(0, 0), a(k, k)), Plus(b(0, 0), b(k, k))),
           Call(Minus(a(0, k), a(k, k)), Plus(b(k, 0), b(k, k))),
           Call(Minus(a(0, 0), a(k, 0)), Plus(b(0, 0), b(0, k))) >>

\* Mutant: the last sign of R_11 slipped.
strassen_R_11_sign(P) == Minus(Minus(Plus(Val(P[5]), Val(P[4])), Val(P[2])), Val(P[6]))

\* Matrix R_11 = ((P5 + P4) - P2) + P6;
strassen_R_11(P) == Plus(Minus(Plus(Val(P[5]), Val(P[4])), Val(P[2])), Val(P[6]))

\* Matrix R_12 = P1 + P2;
strassen_R_12(P) == Plus(Val(P[1]), Val(P[2]))

\* Matrix R_21 = P3 + P4;
strassen_R_21(P) == Plus(Val(P[3]), Val(P[4]))

\* Mutant: the last sign of R_22 slipped.
strassen_R_22_sign(P) == Plus(Minus(Plus(Val(P[5]), Val(P[1])), Val(P[3])), Val(P[7]))

\* Matrix R_22 = ((P5 + P1) - P3) - P7;
strassen_R_22(P) == Minus(Minus(Plus(Val(P[5]), Val(P[1])), Val(P[3])), Val(P[7]))

\* Lines 135-152, with the seven products P computed: an exception of
\* P1..P7 (in that order) propagates, else the assembled result.
strassen_assemble(size, P) ==
    LET products == Then(P[1], Then(P[2], Then(P[3], Then(P[4],
                    Then(P[5], Then(P[6], P[7]))))))
    IN  The({ Then(result, Then(products,
                 The({ Then(R_11, Then(R_12, Then(R_21, Then(R_22,
                          Combined(result.m, <<R_11.m, R_12.m, R_21.m, R_22.m>>)))))
                       : R_11 \in {strassen_R_11(P)}, R_12 \in {strassen_R_12(P)},
                         R_21 \in {strassen_R_21(P)}, R_22 \in {strassen_R_22(P)} })))
              : result \in {NewMatrix(size)} })

\* Matrix Matrix::strassen(Matrix const &other) const
strassen(self, other, ord) ==
    IF self.size = 1
    THEN [multiply(self, other, ord) EXCEPT !.delegated = TRUE]
    ELSE The({ strassen_assemble(self.size, P) : P \in {strassen_P(self, other, ord)} })

\* Matrix Matrix::operator*(Matrix const &other) const
times(self, other, ord) ==
    IF self.size # other.size
    THEN Throw("invalid_argument")
    ELSE strassen(self, other, ord)

----------------------------------------------------------------------------
(* The matrices a driver holds, and the operations it calls on them *)

\* Matrices a driver fills element by element through at_ref.
Fixtures ==
    { [size |-> 1, data |-> <<7>>],
      [size |-> 1, data |-> <<6>>],
      [size |-> 2, data |-> <<1, 2, 3, 4>>],
      [size |-> 2, data |-> <<5, 6, 7, 8>>],
      [size |-> 4, data |-> [i \in 1..16 |-> i]],
      [size |-> 4, data |-> [i \in 1..16 |-> IF (i - 1) \div 4 = (i - 1) % 4 THEN 1 ELSE 0]] }

\* Every matrix the constructor yields for a size up to MaxSize, empty or
\* randomized with one of the seeds.
Constructed ==
    LET tries == {Matrix(s, e, seed) : s \in 0..MaxSize, e \in BOOLEAN, seed \in 1..MaxSeed}
    IN  {o.m : o \in {t \in tries : t.err = "none"}}

Pool == Constructed \cup Fixtures

NoArgs == [x |-> 0, y |-> 0, empty |-> TRUE, who |-> ""]

\* The counters of an outcome.
Stats(o) ==
    [muls |-> o.muls, made |-> o.made, depth |-> o.depth, halved |-> o.halved,
     mulSizes |-> o.mulSizes, delegated |-> o.delegated]

NoStats == Stats(Ok(NoMatrix))

Init ==
    /\ A \in Pool
    /\ B \in Pool
    /\ Q = <<>>
    /\ R = NoMatrix
    /\ err = "none"
    /\ op = "idle"
    /\ args = NoArgs
    /\ ret = 0
    /\ stats = NoStats

\* A call that returns a matrix, on the const operands A and B.
Returns(name, o, a) ==
    /\ op' = name
    /\ args' = a
    /\ R' = o.m
    /\ err' = o.err
    /\ stats' = Stats(o)
    /\ UNCHANGED <<A, B, Q, ret>>

\* who = Matrix(s, empty): on an exception no object is created and the
\* variable keeps the matrix it held.
ConstructOp ==
    /\ op = "idle"
    /\ \E who \in {"A", "B"}, s \in 0..MaxSize, empty \in BOOLEAN, seed \in 1..MaxSeed :
          \E o \in {Matrix(s, empty, seed)} :
              /\ A' = IF who = "A" /\ o.err = "none" THEN o.m ELSE A
              /\ B' = IF who = "B" /\ o.err = "none" THEN o.m ELSE B
              /\ op' = "construct"
              /\ args' = [x |-> s, y |-> IF empty THEN 0 ELSE seed, empty |-> empty, who |-> who]
              /\ err' = o.err
              /\ stats' = Stats(o)
              /\ UNCHANGED <<Q, R, ret>>

\* A.at(r, c): the offset get_index computes, or its exception.
AtOp ==
    /\ op = "idle"
    /\ \E r \in 0..MaxIdx, c \in 0..MaxIdx :
          \E i \in {get_index(A, r, c)} :
              /\ op' = "at"
              /\ args' = [NoArgs EXCEPT !.x = r, !.y = c]
              /\ ret' = i
              /\ err' = IF i = OutOfRange THEN "out_of_range" ELSE "none"
              /\ UNCHANGED <<A, B, Q, R, stats>>

\* A.partition(row_start, col_start)
PartitionOp ==
    /\ op = "idle"
    /\ \E row_start \in 0..MaxIdx, col_start \in 0..MaxIdx :
          \E o \in {partition(A, row_start, col_start)} :
              Returns("partition", o, [NoArgs EXCEPT !.x = row_start, !.y = col_start])

\* The four quadrants of A, as the recursive cases take them:
\* partition(0, 0), partition(0, k), partition(k, 0), partition(k, k).
QuadrantsOp ==
    /\ op = "idle"
    /\ \E k \in {Half(A.size)} :
       \E q11 \in {partition(A, 0, 0)}, q12 \in {partition(A, 0, k)},
          q21 \in {partition(A, k, 0)}, q22 \in {partition(A, k, k)} :
       \E o \in {Then(q11, Then(q12, Then(q21, q22)))} :
           /\ op' = "quadrants"
           /\ args' = [NoArgs EXCEPT !.x = k]
           /\ Q' = IF o.err = "none" THEN <<q11.m, q12.m, q21.m, q22.m>> ELSE <<>>
           /\ err' = o.err
           /\ stats' = Stats(o)
           /\ UNCHANGED <<A, B, R, ret>>

\* Matrix result(s); result.combine(Q11, Q12, Q21, Q22);
CombineOp ==
    /\ op = "quadrants"
    /\ err = "none"
    /\ \E s \in 0..MaxSize :
          \E result \in {NewMatrix(s)} :
          \E c \in {IF result.err = "none"
                     THEN combine(result.m, Q)
                     ELSE [err |-> result.err, self |-> NoMatrix, quads |-> Q]} :
              /\ op' = "combine"
              /\ args' = [NoArgs EXCEPT !.x = s]
              /\ R' = c.self
              /\ Q' = c.quads
              /\ err' = c.err
              /\ stats' = Stats(result)
              /\ UNCHANGED <<A, B, ret>>

\* A + B
AddOp == op = "idle" /\ \E o \in {add(A, B)} : Returns("add", o, NoArgs)

\* A - B
SubOp == op = "idle" /\ \E o \in {subtract(A, B)} : Returns("subtract", o, NoArgs)

\* A * B
TimesOp ==
    /\ op = "idle"
    /\ \E ord \in Orders : \E o \in {times(A, B, ord)} :
          Returns("times", o, [NoArgs EXCEPT !.who = ord])

\* A.multiply(B)
MultiplyOp ==
    /\ op = "idle"
    /\ \E ord \in Orders : \E o \in {multiply(A, B, ord)} :
          Returns("multiply", o, [NoArgs EXCEPT !.who = ord])

\* A.strassen(B)
StrassenOp ==
    /\ op = "idle"
    /\ \E ord \in Orders : \E o \in {strassen(A, B, ord)} :
          Returns("strassen", o, [NoArgs EXCEPT !.who = ord])

\* The result of the last call goes out of scope.
Reset ==
    /\ op # "idle"
    /\ op' = "idle"
    /\ Q' = <<>>
    /\ R' = NoMatrix
    /\ err' = "none"
    /\ args' = NoArgs
    /\ ret' = 0
    /\ stats' = NoStats
    /\ UNCHANGED <<A, B>>

Next ==
    \/ ConstructOp
    \/ AtOp
    \/ PartitionOp
    \/ QuadrantsOp
    \/ CombineOp
    \/ AddOp
    \/ SubOp
    \/ TimesOp
    \/ MultiplyOp
    \/ StrassenOp
    \/ Reset

Spec == Init /\ [][Next]_vars

----------------------------------------------------------------------------
(* Properties *)

\* s is 2^e for some natural e.
IsPowerOfTwo(s) == \E e \in 0..s : 2 ^ e = s

\* log2 of a power of two.
Log2(s) == CHOOSE e \in 0..s : 2 ^ e = s

\* The element at row i, column j (from 0) of m.
Entry(m, i, j) == m.data[i * m.size + j + 1]

RECURSIVE RowByColumn(_, _, _, _, _)
\* Sum over k in [0, n) of a(i, k) * b(k, j).
RowByColumn(a, b, i, j, n) ==
    IF n = 0 THEN 0
    ELSE RowByColumn(a, b, i, j, n - 1) + Entry(a, i, n - 1) * Entry(b, n - 1, j)

WellFormed(m) ==
    /\ m.size > 0
    /\ IsPowerOfTwo(m.size)
    /\ Len(m.data) = m.size * m.size

\* C1: strassen on two matrices of the same size s returns an s-by-s matrix
\* whose element (i, j) is the sum over k of A(i, k) * B(k, j).
C1_StrassenIsProduct ==
    (op = "strassen" /\ A.size = B.size) =>
        /\ err = "none"
        /\ R.size = A.size
        /\ Len(R.data) = A.size * A.size
        /\ \A i \in 0..(A.size - 1), j \in 0..(A.size - 1) :
              Entry(R, i, j) = RowByColumn(A, B, i, j, A.size)

\* strassen has returned [[19,22],[43,50]] for [[1,2],[3,4]] x [[5,6],[7,8]].
C1_Witness ==
    /\ op = "strassen"
    /\ A = [size |-> 2, data |-> <<1, 2, 3, 4>>]
    /\ B = [size |-> 2, data |-> <<5, 6, 7, 8>>]
    /\ R = [size |-> 2, data |-> <<19, 22, 43, 50>>]

\* C2: on two matrices of the same size, strassen and multiply return
\* matrices of the same size with equal elements.
C2_StrassenEqualsMultiply ==
    (op = "strassen" /\ A.size = B.size) =>
        \A o \in {multiply(A, B, args.who)} :
            /\ err = "none"
            /\ o.err = "none"
            /\ R.size = o.m.size
            /\ R.data = o.m.data

\* strassen has returned a non-zero product of two 8-by-8 matrices.
C2_Witness ==
    /\ op = "strassen"
    /\ A.size = 8
    /\ B.size = 8
    /\ err = "none"
    /\ \E n \in 1..Len(R.data) : R.data[n] # 0

\* C3: with operands of different sizes, each of A + B, A - B, A * B,
\* A.multiply(B) and A.strassen(B) throws invalid_argument and returns no
\* matrix.
C3_SizeMismatchFails ==
    (op \in {"add", "subtract", "times", "multiply", "strassen"} /\ A.size # B.size) =>
        (err = "invalid_argument" /\ R = NoMatrix)

\* C4: at(r, c) yields the offset r * size + c when r and c are both below
\* size, and throws out_of_range when r or c is not.
C4_AccessChecksRowAndColumn ==
    op = "at" =>
        /\ (args.x < A.size /\ args.y < A.size) =>
              (err = "none" /\ ret = args.x * A.size + args.y)
        /\ (args.x >= A.size \/ args.y >= A.size) => err = "out_of_range"

\* C5: constructing with a size that is no power of two throws
\* invalid_argument and creates no matrix; with a power of two it succeeds,
\* and the matrix (when not randomized) is size-by-size and all zero.
C5_ConstructorChecksSize ==
    op = "construct" =>
        LET made == IF args.who = "A" THEN A ELSE B
        IN  IF IsPowerOfTwo(args.x)
            THEN /\ err = "none"
                 /\ made.size = args.x
                 /\ Len(made.data) = args.x * args.x
                 /\ stats.made = {<<args.x, args.x * args.x>>}
                 /\ args.empty => \A n \in 1..Len(made.data) : made.data[n] = 0
            ELSE /\ err = "invalid_argument"
                 /\ stats.made = {}

\* The constructor has refused size 6.
C5_Witness == op = "construct" /\ args.x = 6 /\ err = "invalid_argument"

\* C6: each quadrant of a matrix of size s >= 2 has size s/2 and holds the
\* elements M(i + row_start, j + col_start); combine of the four quadrants
\* on a fresh matrix of size s yields M.
C6_PartitionCombineRoundTrip ==
    /\ (op = "quadrants" /\ A.size >= 2) =>
          /\ err = "none"
          /\ \A q \in 1..4 :
                LET half == A.size \div 2
                    row_start == IF q > 2 THEN half ELSE 0
                    col_start == IF q % 2 = 0 THEN half ELSE 0
                IN  /\ Q[q].size = half
                    /\ Len(Q[q].data) = half * half
                    /\ \A i \in 0..(half - 1), j \in 0..(half - 1) :
                          Entry(Q[q], i, j) = Entry(A, i + row_start, j + col_start)
    /\ (op = "combine" /\ args.x = A.size) => (err = "none" /\ R = A)

\* combine has rebuilt the 4-by-4 matrix 1..16 from its quadrants.
C6_Witness ==
    /\ op = "combine"
    /\ args.x = 4
    /\ A = [size |-> 4, data |-> [i \in 1..16 |-> i]]
    /\ R = A

\* C7: partition, +, -, * , multiply and strassen leave their receiver and
\* their argument as they were, whether they return or throw; combine leaves
\* the four quadrants and the size of its receiver as they were.
C7_OperandsUnchanged ==
    [][ /\ (op' \in {"partition", "quadrants", "add", "subtract", "times",
                     "multiply", "strassen", "at"}) => (A' = A /\ B' = B)
        /\ (op' = "combine") =>
              /\ Q' = Q
              /\ A' = A /\ B' = B
              /\ (err' # "invalid_argument") => (R'.size = args'.x /\ Len(R'.data) = args'.x * args'.x)
      ]_vars

\* combine has written non-zero elements into its receiver.
C7_Witness ==
    /\ op = "combine"
    /\ err = "none"
    /\ \E n \in 1..Len(R.data) : R.data[n] # 0

\* C8: every matrix that exists, and every matrix an operation constructed
\* on the way, has a positive power-of-two size and size * size elements.
C8_MatricesWellFormed ==
    /\ WellFormed(A)
    /\ WellFormed(B)
    /\ R # NoMatrix => WellFormed(R)
    /\ \A q \in 1..Len(Q) : WellFormed(Q[q])
    /\ \A made \in stats.made :
          /\ made[1] > 0
          /\ IsPowerOfTwo(made[1])
          /\ made[2] = made[1] * made[1]

\* strassen on 8-by-8 operands has constructed matrices of sizes 8, 4, 2, 1.
C8_Witness ==
    /\ op = "strassen"
    /\ A.size = 8
    /\ {<<8, 64>>, <<4, 16>>, <<2, 4>>, <<1, 1>>} \subseteq stats.made

\* C9: strassen calls multiply only on 1-by-1 operands and does exactly
\* 7^log2(s) scalar multiplications.
C9_StrassenSevenProducts ==
    (op = "strassen" /\ A.size = B.size /\ err = "none") =>
        /\ stats.mulSizes \subseteq {1}
        /\ stats.muls = 7 ^ Log2(A.size)

============================================================================
